---- MODULE Spec2Model ----
(***************************************************************************)
(* A model of busybody (src/busybody.py): the virtualenv classifier, the   *)
(* tree scanner, the prober, the dependency parser, the aggregator and the *)
(* command-line dispatch.  Every component has its own specification; the  *)
(* variables of the other components rest at their idle values.            *)
(*                                                                         *)
(* Text is a sequence of one-character strings, so that strip, split and   *)
(* join are computed and not assumed.                                      *)
(***************************************************************************)
EXTENDS Integers, Sequences, FiniteSets, TLC

VARIABLES
    \* is_virtualenv
    cls_fs, cls_pc, cls_result,
    \* get_virtualenvs
    parent, verdict, walk_stack, dirpath, subdirectories, idx, virtualenvs,
    classified, visited, scan_pc,
    \* analyze_virtualenv
    probe_pc, process, result, launched,
    \* decompose_dependency
    dependency, decomposed, parse_pc,
    \* stats
    stats_virtualenvs, analyses, statistics, stats_pc,
    \* __main__
    args, cwd, root_dir, called, cli_pc

cls_vars == <<cls_fs, cls_pc, cls_result>>
scan_vars == <<parent, verdict, walk_stack, dirpath, subdirectories, idx,
               virtualenvs, classified, visited, scan_pc>>
probe_vars == <<probe_pc, process, result, launched>>
parse_vars == <<dependency, decomposed, parse_pc>>
stats_vars == <<stats_virtualenvs, analyses, statistics, stats_pc>>
cli_vars == <<args, cwd, root_dir, called, cli_pc>>
vars == <<cls_vars, scan_vars, probe_vars, parse_vars, stats_vars, cli_vars>>

(***************************************************************************)
(* Bounds of the model.                                                    *)
(***************************************************************************)
MaxDirs == 4
MaxTextLen == 1
MaxLineLen == 4
MaxEnvs == 2
MaxPathLen == 2

(***************************************************************************)
(* Idle values: a component that a specification does not run.             *)
(***************************************************************************)
ClsIdle == cls_fs = <<>> /\ cls_pc = "idle" /\ cls_result = FALSE
ScanIdle ==
    /\ parent = <<>> /\ verdict = <<>> /\ walk_stack = <<>> /\ dirpath = 0
    /\ subdirectories = <<>> /\ idx = 0 /\ virtualenvs = <<>>
    /\ classified = {} /\ visited = {} /\ scan_pc = "idle"
ProbeIdle == probe_pc = "idle" /\ process = <<>> /\ result = <<>> /\ launched = <<>>
ParseIdle == dependency = <<>> /\ decomposed = <<>> /\ parse_pc = "idle"
StatsIdle ==
    stats_virtualenvs = <<>> /\ analyses = <<>> /\ statistics = <<>> /\ stats_pc = "idle"
CliIdle == args = <<>> /\ cwd = <<>> /\ root_dir = <<>> /\ called = <<>> /\ cli_pc = "idle"

(***************************************************************************)
(* Python built-ins on lists.                                              *)
(***************************************************************************)
RECURSIVE SumBools(_)
\* sum() of a list of bools: True counts 1, False 0.
SumBools(bs) ==
    IF bs = <<>> THEN 0
    ELSE (IF Head(bs) THEN 1 ELSE 0) + SumBools(Tail(bs))

Range(s) == {s[i] : i \in DOMAIN s}

\* list.remove(x) leaves the list as it is: the pruning forgotten.
ListRemoveNothing(s, x) == s

\* list.remove(x): drops the first element equal to x.
ListRemove(s, x) ==
    LET i == CHOOSE j \in DOMAIN s : s[j] = x /\ \A k \in 1..(j - 1) : s[k] # x
    IN SubSeq(s, 1, i - 1) \o SubSeq(s, i + 1, Len(s))

(***************************************************************************)
(* is_virtualenv.  The file system around `path` is a map from the eight   *)
(* targets of the checks to what is found there.                           *)
(***************************************************************************)
Kinds == {"absent", "file", "dir"}
Targets == {"path", "bin/python", "bin/pip", "bin/activate",
            "include", "lib", "share", "pyvenv.cfg"}

\* Entries below `path` exist only when `path` is a directory.
FileSystems ==
    {f \in [Targets -> Kinds] :
        f["path"] # "dir" => \A t \in Targets \ {"path"} : f[t] = "absent"}

\* os.path.isdir, os.path.exists, os.path.isfile: False on a missing path.
Predicate(name, kind) ==
    CASE name = "isdir" -> kind = "dir"
      [] name = "exists" -> kind # "absent"
      [] name = "isfile" -> kind = "file"

checks == <<
    <<"path", "isdir">>,
    <<"bin/python", "exists">>,
    <<"bin/pip", "exists">>,
    <<"bin/activate", "exists">>,
    <<"include", "isdir">>,
    <<"lib", "isdir">>,
    <<"share", "isdir">>,
    <<"pyvenv.cfg", "isfile">> >>

\* The wiggle room narrowed to one missing signal.
is_virtualenv_one_missing(fs) ==
    LET results == [i \in DOMAIN checks |-> Predicate(checks[i][2], fs[checks[i][1]])]
    IN SumBools(results) >= Len(checks) - 1

is_virtualenv(fs) ==
    LET results == [i \in DOMAIN checks |-> Predicate(checks[i][2], fs[checks[i][1]])]
    IN SumBools(results) >= Len(checks) - 2

ClsInit == cls_fs \in FileSystems /\ cls_pc = "call" /\ cls_result = FALSE

IsVirtualenv ==
    /\ cls_pc = "call"
    /\ cls_result' = is_virtualenv(cls_fs)
    /\ cls_pc' = "returned"
    /\ UNCHANGED cls_fs
    /\ UNCHANGED <<scan_vars, probe_vars, parse_vars, stats_vars, cli_vars>>

ClsNext == IsVirtualenv

InitClassify ==
    ClsInit /\ ScanIdle /\ ProbeIdle /\ ParseIdle /\ StatsIdle /\ CliIdle

SpecClassify == InitClassify /\ [][ClsNext]_vars

(***************************************************************************)
(* get_virtualenvs.  A directory tree is a set of nodes 1..n under the     *)
(* root 0 with parent[d] < d; a directory lists its subdirectories in      *)
(* increasing order, so the trees cover every listing order.  The trees    *)
(* hold real directories only (os.walk does not follow links).             *)
(***************************************************************************)
root == 0

Trees(n) == {p \in [1..n -> 0..n] : \A d \in 1..n : p[d] < d}

RECURSIVE SortedSeq(_)
SortedSeq(S) ==
    IF S = {} THEN <<>>
    ELSE LET m == CHOOSE x \in S : \A y \in S : x <= y
         IN <<m>> \o SortedSeq(S \ {m})

\* os.scandir(top): the subdirectories of top, in listing order.
Listing(top) == SortedSeq({d \in DOMAIN parent : parent[d] = top})

ScanInit ==
    /\ \E n \in 0..MaxDirs :
        /\ parent \in Trees(n)
        /\ verdict \in [1..n -> BOOLEAN]
    /\ walk_stack = <<root>>
    /\ dirpath = root
    /\ subdirectories = <<>>
    /\ idx = 0
    /\ virtualenvs = <<>>
    /\ classified = {}
    /\ visited = {}
    /\ scan_pc = "walk"

\* os.walk(topdown=True) yields the next directory and the list of its
\* subdirectories, which the caller may edit in place.
WalkYield ==
    /\ scan_pc = "walk"
    /\ walk_stack # <<>>
    /\ dirpath' = Head(walk_stack)
    /\ subdirectories' = Listing(Head(walk_stack))
    /\ walk_stack' = Tail(walk_stack)
    /\ visited' = visited \cup {Head(walk_stack)}
    /\ idx' = 1
    /\ scan_pc' = "for"
    /\ UNCHANGED <<parent, verdict, virtualenvs, classified>>
    /\ UNCHANGED <<cls_vars, probe_vars, parse_vars, stats_vars, cli_vars>>

\* One pass of `for subdirectory in subdirectories`: the list iterator reads
\* position idx of the list as it is now, and moves on by one.
ForSubdirectory ==
    /\ scan_pc = "for"
    /\ idx <= Len(subdirectories)
    /\ LET subdirectory == subdirectories[idx]
       IN /\ classified' = classified \cup {subdirectory}
          /\ \/ /\ verdict[subdirectory]
                /\ virtualenvs' = Append(virtualenvs, subdirectory)
                /\ subdirectories' = ListRemove(subdirectories, subdirectory)
             \/ /\ ~verdict[subdirectory]
                /\ UNCHANGED <<virtualenvs, subdirectories>>
    /\ idx' = idx + 1
    /\ UNCHANGED <<parent, verdict, walk_stack, dirpath, visited, scan_pc>>
    /\ UNCHANGED <<cls_vars, probe_vars, parse_vars, stats_vars, cli_vars>>

\* The loop body is over: os.walk goes on with what is left of the list,
\* before the directories that were already waiting.
WalkDescend ==
    /\ scan_pc = "for"
    /\ idx > Len(subdirectories)
    /\ walk_stack' = subdirectories \o walk_stack
    /\ scan_pc' = "walk"
    /\ UNCHANGED <<parent, verdict, dirpath, subdirectories, idx, virtualenvs,
                   classified, visited>>
    /\ UNCHANGED <<cls_vars, probe_vars, parse_vars, stats_vars, cli_vars>>

ReturnVirtualenvs ==
    /\ scan_pc = "walk"
    /\ walk_stack = <<>>
    /\ scan_pc' = "returned"
    /\ UNCHANGED <<parent, verdict, walk_stack, dirpath, subdirectories, idx,
                   virtualenvs, classified, visited>>
    /\ UNCHANGED <<cls_vars, probe_vars, parse_vars, stats_vars, cli_vars>>

ScanNext == WalkYield \/ ForSubdirectory \/ WalkDescend \/ ReturnVirtualenvs

InitScan ==
    ScanInit /\ ClsIdle /\ ProbeIdle /\ ParseIdle /\ StatsIdle /\ CliIdle

SpecScan == InitScan /\ [][ScanNext]_vars

RECURSIVE Ancestors(_)
\* The proper ancestors of d, the root included.
Ancestors(d) == IF d = root THEN {} ELSE {parent[d]} \cup Ancestors(parent[d])

\* The directories under root that match and have no matching ancestor under root.
MaximalEnvironments ==
    {d \in DOMAIN parent :
        verdict[d] /\ \A a \in Ancestors(d) \ {root} : ~verdict[a]}

(***************************************************************************)
(* Text: str methods, computed on sequences of characters.                 *)
(***************************************************************************)
Whitespace == {" ", "\n"}

Min(a, b) == IF a <= b THEN a ELSE b

\* s[a:b], clipped to the text as Python clips a slice.
Slice(s, a, b) == SubSeq(s, a + 1, Min(b, Len(s)))

RECURSIVE LStrip(_)
LStrip(s) == IF s # <<>> /\ Head(s) \in Whitespace THEN LStrip(Tail(s)) ELSE s

RECURSIVE RStrip(_)
RStrip(s) ==
    IF s # <<>> /\ s[Len(s)] \in Whitespace THEN RStrip(SubSeq(s, 1, Len(s) - 1)) ELSE s

\* str.strip() kept as the identity: the text is stored untrimmed.
StripNothing(s) == s

\* str.strip()
Strip(s) == RStrip(LStrip(s))

\* str.find(sep) + 1: the first position where sep starts, 0 when it does not occur.
Find(s, sep) ==
    LET at == {i \in 1..(Len(s) - Len(sep) + 1) : SubSeq(s, i, i + Len(sep) - 1) = sep}
    IN IF at = {} THEN 0 ELSE CHOOSE i \in at : \A j \in at : i <= j

\* `sep in s`
Contains(s, sep) == Find(s, sep) # 0

RECURSIVE Split(_, _)
\* str.split(sep): cuts at every occurrence of sep, left to right.
Split(s, sep) ==
    LET i == Find(s, sep)
    IN IF i = 0 THEN <<s>>
       ELSE <<SubSeq(s, 1, i - 1)>> \o Split(SubSeq(s, i + Len(sep), Len(s)), sep)

RECURSIVE Join(_, _)
\* sep.join(parts)
Join(parts, sep) ==
    IF parts = <<>> THEN <<>>
    ELSE IF Len(parts) = 1 THEN parts[1]
    ELSE parts[1] \o sep \o Join(Tail(parts), sep)

RECURSIVE TextsUpTo(_, _)
\* Every text over the alphabet of at most n characters.
TextsUpTo(alphabet, n) ==
    IF n = 0 THEN {<<>>}
    ELSE LET shorter == TextsUpTo(alphabet, n - 1)
         IN shorter \cup {Append(t, c) : t \in shorter, c \in alphabet}

(***************************************************************************)
(* analyze_virtualenv.  subprocess.run either raises (the binary is        *)
(* missing, or may not be executed) or returns a completed process: an     *)
(* exit code and the two captured streams.  A stream is bytes: it decodes  *)
(* to a text, or bytes.decode() raises UnicodeDecodeError.                 *)
(***************************************************************************)
Alphabet == {" ", "a"}
Texts == TextsUpTo(Alphabet, MaxTextLen)

\* Outputs with the separators the prober cuts at: " from " and a newline.
SampleOutputs == {
    <<"a", " ", "f", "r", "o", "m", " ", "a">>,
    <<"a", "\n", "a", "\n">> }

\* An error text with white space around and inside it.
SampleErrors == { <<" ", "a", " ", "a", "\n">> }

Bytes(texts) == [valid : {TRUE}, text : texts] \cup {[valid |-> FALSE, text |-> <<>>]}

Exceptions == {"FileNotFoundError", "PermissionError"}
ExitCodes == {0, 1, -9}

Processes ==
    [kind : {"raised"}, exception : Exceptions]
    \cup [kind : {"completed"}, returncode : ExitCodes,
          stdout : Bytes(Texts \cup SampleOutputs), stderr : Bytes(Texts \cup SampleErrors)]

\* repr(e): one opaque symbol, the name of the exception.
Repr(exception) == <<exception>>

\* The error of a non-zero exit, its text stored untrimmed.
ExitErrorUntrimmed(proc) ==
    [exit_code |-> proc.returncode, error |-> StripNothing(proc.stderr.text)]

\* {"exit_code": returncode, "error": stderr.decode().strip()}
ExitError(proc) ==
    [exit_code |-> proc.returncode, error |-> Strip(proc.stderr.text)]

\* {"error": repr(e)}
CaughtError(exception) == [error |-> Repr(exception)]

\* stdout.decode().strip()
PythonVersionOf(text) == Strip(text)
\* stdout.decode().split(" from ")[0].strip()
PipVersionOf(text) == Strip(Split(text, <<" ", "f", "r", "o", "m", " ">>)[1])
\* stdout.decode().strip().split("\n")
PipFreezeOf(text) == Split(Strip(text), <<"\n">>)

\* A try block ends with an error entry: subprocess.run raised, the exit code
\* is not 0, or the stream that is decoded does not decode.
StepFails(proc) ==
    \/ proc.kind = "raised"
    \/ proc.returncode # 0
    \/ ~proc.stdout.valid

\* The error entry of a try block that ends with one.
StepError(proc) ==
    IF proc.kind = "raised" THEN CaughtError(proc.exception)
    ELSE IF proc.returncode # 0 /\ proc.stderr.valid THEN ExitError(proc)
    ELSE CaughtError("UnicodeDecodeError")

python_version_block(proc) ==
    IF StepFails(proc)
    THEN "python_version_error" :> StepError(proc)
    ELSE "python_version" :> PythonVersionOf(proc.stdout.text)

\* The second block storing its error under the first block's key.
pip_version_block_pasted(proc) ==
    IF StepFails(proc)
    THEN "python_version_error" :> StepError(proc)
    ELSE "pip_version" :> PipVersionOf(proc.stdout.text)

pip_version_block(proc) ==
    IF StepFails(proc)
    THEN "pip_version_error" :> StepError(proc)
    ELSE "pip_version" :> PipVersionOf(proc.stdout.text)

pip_freeze_block(proc) ==
    IF StepFails(proc)
    THEN "pip_freeze_error" :> StepError(proc)
    ELSE "pip_freeze" :> PipFreezeOf(proc.stdout.text)

\* result[key] = value
SetItem(dict, entry) == entry @@ dict

python_binary == "bin/python"
pip_binary == "bin/pip"

ProbeInit ==
    /\ probe_pc = "python_version"
    /\ process = [kind |-> "none"]
    /\ result = <<>>
    /\ launched = <<>>

\* subprocess.run(argv, capture_output=True)
SubprocessRun(here, argv, there) ==
    /\ probe_pc = here
    /\ launched' = Append(launched, argv)
    /\ process' \in Processes
    /\ probe_pc' = there
    /\ UNCHANGED result
    /\ UNCHANGED <<cls_vars, scan_vars, parse_vars, stats_vars, cli_vars>>

RunPythonVersion ==
    SubprocessRun("python_version", <<python_binary, "--version">>, "python_version_done")

RecordPythonVersion ==
    /\ probe_pc = "python_version_done"
    /\ result' = SetItem(result, python_version_block(process))
    /\ probe_pc' = "pip_version"
    /\ UNCHANGED <<process, launched>>
    /\ UNCHANGED <<cls_vars, scan_vars, parse_vars, stats_vars, cli_vars>>

RunPipVersion ==
    SubprocessRun("pip_version", <<pip_binary, "--version">>, "pip_version_done")

RecordPipVersion ==
    /\ probe_pc = "pip_version_done"
    /\ result' = SetItem(result, pip_version_block(process))
    /\ probe_pc' = "pip_freeze"
    /\ UNCHANGED <<process, launched>>
    /\ UNCHANGED <<cls_vars, scan_vars, parse_vars, stats_vars, cli_vars>>

RunPipFreeze ==
    SubprocessRun("pip_freeze", <<pip_binary, "freeze">>, "pip_freeze_done")

RecordPipFreeze ==
    /\ probe_pc = "pip_freeze_done"
    /\ result' = SetItem(result, pip_freeze_block(process))
    /\ probe_pc' = "return"
    /\ UNCHANGED <<process, launched>>
    /\ UNCHANGED <<cls_vars, scan_vars, parse_vars, stats_vars, cli_vars>>

ReturnResult ==
    /\ probe_pc = "return"
    /\ probe_pc' = "returned"
    /\ UNCHANGED <<process, result, launched>>
    /\ UNCHANGED <<cls_vars, scan_vars, parse_vars, stats_vars, cli_vars>>

ProbeNext ==
    \/ RunPythonVersion \/ RecordPythonVersion
    \/ RunPipVersion \/ RecordPipVersion
    \/ RunPipFreeze \/ RecordPipFreeze
    \/ ReturnResult

InitProbe ==
    ProbeInit /\ ClsIdle /\ ScanIdle /\ ParseIdle /\ StatsIdle /\ CliIdle

SpecProbe == InitProbe /\ [][ProbeNext]_vars

(***************************************************************************)
(* decompose_dependency.  What it returns is a tuple: of two elements on   *)
(* every branch but the "==" one, which returns as many as the split has.  *)
(***************************************************************************)
AllButLast(s) == SubSeq(s, 1, Len(s) - 1)
Last(s) == s[Len(s)]

decompose_dependency(dep) ==
    IF Slice(dep, 0, 3) = <<"-", "e", " ">> /\ Slice(dep, 3, 7) = <<"g", "i", "t", "+">>
    THEN LET split == Split(Slice(dep, 3, Len(dep)), <<"@">>)
         IN IF Len(split) = 2
            THEN split
            ELSE <<Join(AllButLast(split), <<"@">>), Last(split)>>
    ELSE IF Slice(dep, 0, 3) = <<"-", "e", " ">>
    THEN <<Slice(dep, 3, Len(dep)), <<>>>>
    ELSE IF Contains(dep, <<"=", "=">>)
    THEN Split(dep, <<"=", "=">>)
    ELSE <<dep, <<>>>>

\* The lines: nothing, "-e " or "-e git+" in front of a bounded text.
LinePrefixes == {<<>>, <<"-", "e", " ">>, <<"-", "e", " ", "g", "i", "t", "+">>}
\* A pinned line with a second "==" in it.
SampleLines == { <<"a", "=", "=", "a", "=", "=", "a">> }
Lines ==
    {pre \o body : pre \in LinePrefixes, body \in TextsUpTo({"a", "@", "="}, MaxLineLen)}
    \cup SampleLines

ParseInit == dependency \in Lines /\ decomposed = <<>> /\ parse_pc = "call"

DecomposeDependency ==
    /\ parse_pc = "call"
    /\ decomposed' = decompose_dependency(dependency)
    /\ parse_pc' = "returned"
    /\ UNCHANGED dependency
    /\ UNCHANGED <<cls_vars, scan_vars, probe_vars, stats_vars, cli_vars>>

ParseNext == DecomposeDependency

InitParse ==
    ParseInit /\ ClsIdle /\ ScanIdle /\ ProbeIdle /\ StatsIdle /\ CliIdle

SpecParse == InitParse /\ [][ParseNext]_vars

(***************************************************************************)
(* stats.  The scanner hands it a list of distinct paths; every one is     *)
(* analysed in turn; the records are then reduced to the three tables.     *)
(* None, and a value that may be None, is a record with a `some` flag.     *)
(***************************************************************************)
None == [some |-> FALSE, value |-> <<>>]
Some(v) == [some |-> TRUE, value |-> v]

\* The three try blocks of analyze_virtualenv, on what the three processes did.
analyze_virtualenv(python_version_process, pip_version_process, pip_freeze_process) ==
    SetItem(SetItem(SetItem(<<>>,
        python_version_block(python_version_process)),
        pip_version_block(pip_version_process)),
        pip_freeze_block(pip_freeze_process))

Completed(returncode, stdout, stderr) ==
    [kind |-> "completed", returncode |-> returncode,
     stdout |-> [valid |-> TRUE, text |-> stdout],
     stderr |-> [valid |-> TRUE, text |-> stderr]]

\* What the environments under the root do when probed.
PythonRuns == {
    Completed(0, <<"a", "\n">>, <<>>),
    Completed(0, <<"a", "a", "\n">>, <<>>),
    [kind |-> "raised", exception |-> "FileNotFoundError"] }

PipRuns == {
    Completed(0, <<"a", " ", "f", "r", "o", "m", " ", "a", "\n">>, <<>>),
    Completed(1, <<>>, <<"a", "\n">>) }

FreezeOutputs == {
    <<>>,
    <<"a", "=", "=", "1", "\n">>,
    <<"a", "\n", "-", "e", " ", "a", "\n">>,
    <<"a", "=", "=", "1", "=", "=", "2", "\n">>,
    <<"-", "e", " ", "g", "i", "t", "+", "a", "\n">>,
    <<"-", "e", " ", "\n", "a", "\n">> }

FreezeRuns ==
    {Completed(0, out, <<>>) : out \in FreezeOutputs}
    \cup {Completed(1, <<>>, <<"a", "\n">>)}

\* dict.get(key, default)
Get(dict, key, default) == IF key \in DOMAIN dict THEN dict[key] ELSE default

\* Counter with one more occurrence of key.
Count(counter, key) ==
    IF key \in DOMAIN counter
    THEN [counter EXCEPT ![key] = @ + 1]
    ELSE counter @@ (key :> 1)

RECURSIVE Counter(_)
\* collections.Counter(list)
Counter(list) ==
    IF list = <<>> THEN <<>> ELSE Count(Counter(AllButLast(list)), Last(list))

RECURSIVE Concat(_)
\* The lists of a list, one after the other.
Concat(lists) == IF lists = <<>> THEN <<>> ELSE Head(lists) \o Concat(Tail(lists))

RECURSIVE SelectSome(_)
SelectSome(list) ==
    IF list = <<>> THEN <<>>
    ELSE (IF Head(list).some THEN <<Head(list)>> ELSE <<>>) \o SelectSome(Tail(list))

\* analyses.values(), in the order the environments were analysed.
Values(dict, keys) == [i \in DOMAIN keys |-> dict[keys[i]]]

\* The failed probes left out of the list that is counted.
VersionsOfSuccessful(values, key) ==
    SelectSome([i \in DOMAIN values |->
        IF key \in DOMAIN values[i] THEN Some(values[i][key]) ELSE None])

\* [analysis.get(key, None) for analysis in analyses.values()]
Versions(values, key) ==
    [i \in DOMAIN values |->
        IF key \in DOMAIN values[i] THEN Some(values[i][key]) ELSE None]

\* [decompose_dependency(dep) for analysis in ... for dep in analysis.get("pip_freeze", [])]
Dependencies(values) ==
    Concat([i \in DOMAIN values |->
        LET pip_freeze == Get(values[i], "pip_freeze", <<>>)
        IN [j \in DOMAIN pip_freeze |-> decompose_dependency(pip_freeze[j])]])

RECURSIVE DependenciesByPackage(_)
\* package -> the list of the versions it was seen at
DependenciesByPackage(dependencies) ==
    IF dependencies = <<>> THEN <<>>
    ELSE LET before == DependenciesByPackage(AllButLast(dependencies))
             package == Last(dependencies)[1]
             version == Last(dependencies)[2]
         IN (package :> Append(Get(before, package, <<>>), version)) @@ before

DependencyCounts(dependencies) ==
    LET by_package == DependenciesByPackage(dependencies)
    IN [package \in DOMAIN by_package |-> Counter(by_package[package])]

StatsInit ==
    /\ stats_virtualenvs = <<>>
    /\ analyses = <<>>
    /\ statistics = <<>>
    /\ stats_pc = "get_virtualenvs"

\* virtualenvs = get_virtualenvs(root_dir): a list of distinct paths.
StatsGetVirtualenvs ==
    /\ stats_pc = "get_virtualenvs"
    /\ \E n \in 0..MaxEnvs : stats_virtualenvs' = [i \in 1..n |-> i]
    /\ stats_pc' = "analyze"
    /\ UNCHANGED <<analyses, statistics>>
    /\ UNCHANGED <<cls_vars, scan_vars, probe_vars, parse_vars, cli_vars>>

\* One entry of the dict comprehension: the next environment is analysed.
StatsAnalyze ==
    /\ stats_pc = "analyze"
    /\ Cardinality(DOMAIN analyses) < Len(stats_virtualenvs)
    /\ LET virtualenv == stats_virtualenvs[Cardinality(DOMAIN analyses) + 1]
       IN \E p1 \in PythonRuns, p2 \in PipRuns, p3 \in FreezeRuns :
            analyses' = SetItem(analyses, virtualenv :> analyze_virtualenv(p1, p2, p3))
    /\ UNCHANGED <<stats_virtualenvs, statistics, stats_pc>>
    /\ UNCHANGED <<cls_vars, scan_vars, probe_vars, parse_vars, cli_vars>>

\* The reduction; unpacking a dependency that is no pair raises ValueError.
StatsReduce ==
    /\ stats_pc = "analyze"
    /\ Cardinality(DOMAIN analyses) = Len(stats_virtualenvs)
    /\ LET values == Values(analyses, stats_virtualenvs)
           dependencies == Dependencies(values)
       IN \/ /\ \E i \in DOMAIN dependencies : Len(dependencies[i]) # 2
             /\ stats_pc' = "raised"
             /\ UNCHANGED statistics
          \/ /\ \A i \in DOMAIN dependencies : Len(dependencies[i]) = 2
             /\ statistics' =
                    [python_versions |-> Counter(Versions(values, "python_version")),
                     pip_versions |-> Counter(Versions(values, "pip_version")),
                     dependency_counts |-> DependencyCounts(dependencies)]
             /\ stats_pc' = "returned"
    /\ UNCHANGED <<stats_virtualenvs, analyses>>
    /\ UNCHANGED <<cls_vars, scan_vars, probe_vars, parse_vars, cli_vars>>

StatsNext == StatsGetVirtualenvs \/ StatsAnalyze \/ StatsReduce

InitStats ==
    StatsInit /\ ClsIdle /\ ScanIdle /\ ProbeIdle /\ ParseIdle /\ CliIdle

SpecStats == InitStats /\ [][StatsNext]_vars

(***************************************************************************)
(* __main__.  A path is absolute or relative, with its components; "l" in  *)
(* the root directory is a symbolic link to the directory "d" there.       *)
(***************************************************************************)
Names == {".", "..", "d", "l"}
Paths == [abs : BOOLEAN, parts : TextsUpTo(Names, MaxPathLen)]
WorkingDirectories == {<<>>, <<"d">>, <<"l">>}
Commands == {"virtualenv?", "virtualenvs", "analyze", "stats"}

\* The link at a place, as the parts of its target.
Symlinks == (<<"l">> :> <<"d">>)

RECURSIVE Normpath(_)
\* os.path.normpath on the parts of an absolute path: "." dropped, ".." steps
\* up, and stays at the root there.
Normpath(parts) ==
    IF parts = <<>> THEN <<>>
    ELSE LET before == Normpath(AllButLast(parts))
             name == Last(parts)
         IN IF name = "." THEN before
            ELSE IF name = ".." THEN (IF before = <<>> THEN <<>> ELSE AllButLast(before))
            ELSE Append(before, name)

\* os.path.abspath(path)
Abspath(path, working_directory) ==
    [abs |-> TRUE,
     parts |-> Normpath(IF path.abs THEN path.parts ELSE working_directory \o path.parts)]

RECURSIVE Resolve(_)
\* The parts of a normalised absolute path with every link on the way followed.
Resolve(parts) ==
    IF parts = <<>> THEN <<>>
    ELSE LET here == Append(Resolve(AllButLast(parts)), Last(parts))
         IN IF here \in DOMAIN Symlinks THEN Symlinks[here] ELSE here

\* os.path.realpath(path), of an absolute path
Realpath(path) == [abs |-> TRUE, parts |-> Resolve(path.parts)]

CliInit ==
    /\ args \in [root_dir : Paths, command : Commands]
    /\ cwd \in WorkingDirectories
    /\ root_dir = <<>>
    /\ called = <<>>
    /\ cli_pc = "parsed"

\* root_dir = os.path.realpath(os.path.abspath(args.root_dir))
ResolveRootDir ==
    /\ cli_pc = "parsed"
    /\ root_dir' = Realpath(Abspath(args.root_dir, cwd))
    /\ cli_pc' = "dispatch"
    /\ UNCHANGED <<args, cwd, called>>
    /\ UNCHANGED <<cls_vars, scan_vars, probe_vars, parse_vars, stats_vars>>

\* The branch of the command: which function is called, and on which path.
Dispatch ==
    /\ cli_pc = "dispatch"
    /\ \/ /\ args.command = "virtualenv?"
          /\ called' = [function |-> "is_virtualenv", path |-> root_dir]
       \/ /\ args.command = "virtualenvs"
          /\ called' = [function |-> "get_virtualenvs", path |-> root_dir]
       \/ /\ args.command = "analyze"
          /\ called' = [function |-> "analyze_virtualenv", path |-> args.root_dir]
       \/ /\ args.command = "stats"
          /\ called' = [function |-> "stats", path |-> args.root_dir]
    /\ cli_pc' = "called"
    /\ UNCHANGED <<args, cwd, root_dir>>
    /\ UNCHANGED <<cls_vars, scan_vars, probe_vars, parse_vars, stats_vars>>

CliNext == ResolveRootDir \/ Dispatch

InitCli ==
    CliInit /\ ClsIdle /\ ScanIdle /\ ProbeIdle /\ ParseIdle /\ StatsIdle

SpecCli == InitCli /\ [][CliNext]_vars

(***************************************************************************)
(* The claims.                                                             *)
(***************************************************************************)

\* C1: when get_virtualenvs returns, the set of the paths it returns is exactly
\* the set of the maximal matching directories under the root: every matching
\* directory without a matching ancestor under the root, and nothing else.
C1_ReturnsMaximalEnvironments ==
    scan_pc = "returned" => Range(virtualenvs) = MaximalEnvironments

\* C2: a directory that get_virtualenvs has recorded is never walked into, and
\* none of its descendants is ever classified, walked into or recorded; so no
\* recorded path lies below another recorded path.
C2_RecordedNeverDescended ==
    \A e \in Range(virtualenvs) :
        /\ e \notin visited
        /\ \A d \in DOMAIN parent :
            e \in Ancestors(d) =>
                d \notin classified /\ d \notin visited /\ d \notin Range(virtualenvs)

\* C2 witness: the scan is over, and a recorded directory has a subdirectory
\* that matches the classifier too.
C2_NestedMatchUnderRecorded ==
    /\ scan_pc = "returned"
    /\ \E e \in Range(virtualenvs) : \E d \in DOMAIN parent : parent[d] = e /\ verdict[d]

\* The pieces of evidence that hold of a file system, as the spec lists them.
Evidence(fs) ==
    {t \in {"path", "include", "lib", "share"} : fs[t] = "dir"}
    \cup {t \in {"bin/python", "bin/pip", "bin/activate"} : fs[t] # "absent"}
    \cup {t \in {"pyvenv.cfg"} : fs[t] = "file"}

\* C3: is_virtualenv returns true if and only if at least 6 of the 8 pieces of
\* evidence hold; on a path that does not exist it returns false; and the call
\* leaves the file system as it was.
C3_TrueIffSixOfEight ==
    [][cls_pc = "call" /\ cls_pc' = "returned" =>
        /\ cls_result' = (Cardinality(Evidence(cls_fs)) >= 6)
        /\ (cls_fs["path"] = "absent" => cls_result' = FALSE)
        /\ cls_fs' = cls_fs]_vars

\* C3 witness: is_virtualenv has returned true on a directory with exactly two
\* of the eight pieces of evidence missing.
C3_TwoMissingAccepted ==
    cls_pc = "returned" /\ Cardinality(Evidence(cls_fs)) = 6 /\ cls_result

\* The three commands of the prober, in the order of the code.
ProbeCommands == <<
    <<"bin/python", "--version">>,
    <<"bin/pip", "--version">>,
    <<"bin/pip", "freeze">> >>

\* The process ran, exited with 0 and printed bytes that decode.
Succeeded(proc) ==
    proc.kind = "completed" /\ proc.returncode = 0 /\ proc.stdout.valid

\* Of the two keys of a field, the one that the outcome of its step calls for.
KeyFor(proc, key, error_key) == IF Succeeded(proc) THEN key ELSE error_key

\* C4: analyze_virtualenv runs its three commands once each and in order,
\* whatever the earlier ones did; it never stops before it returns; and the
\* record holds, of the two keys of every field whose step is over, exactly the
\* one that the outcome of that very step calls for.
C4_ThreeIndependentSteps ==
    /\ launched = SubSeq(ProbeCommands, 1, Len(launched))
    /\ probe_pc = "returned" => launched = ProbeCommands
    /\ probe_pc # "returned" => ENABLED ProbeNext
    /\ probe_pc \in {"python_version", "python_version_done"} => DOMAIN result = {}
    /\ probe_pc = "pip_version" =>
        DOMAIN result = {KeyFor(process, "python_version", "python_version_error")}
    /\ probe_pc \in {"pip_version", "pip_version_done"} =>
        /\ Cardinality(DOMAIN result) = 1
        /\ DOMAIN result \subseteq {"python_version", "python_version_error"}
    /\ probe_pc = "pip_freeze" =>
        KeyFor(process, "pip_version", "pip_version_error") \in DOMAIN result
    /\ probe_pc \in {"pip_freeze", "pip_freeze_done"} =>
        /\ Cardinality(DOMAIN result) = 2
        /\ Cardinality(DOMAIN result \cap {"python_version", "python_version_error"}) = 1
        /\ Cardinality(DOMAIN result \cap {"pip_version", "pip_version_error"}) = 1
    /\ probe_pc \in {"return", "returned"} =>
        /\ KeyFor(process, "pip_freeze", "pip_freeze_error") \in DOMAIN result
        /\ Cardinality(DOMAIN result) = 3
        /\ Cardinality(DOMAIN result \cap {"python_version", "python_version_error"}) = 1
        /\ Cardinality(DOMAIN result \cap {"pip_version", "pip_version_error"}) = 1
        /\ Cardinality(DOMAIN result \cap {"pip_freeze", "pip_freeze_error"}) = 1

\* C4 witness: the prober has returned a record in which the first and the
\* third step failed and the second one, between them, succeeded.
C4_MixedOutcomes ==
    /\ probe_pc = "returned"
    /\ DOMAIN result = {"python_version_error", "pip_version", "pip_freeze_error"}
    /\ Len(launched) = 3

ErrorKeys == {"python_version_error", "pip_version_error", "pip_freeze_error"}

\* C10 as stated: every error recorded in the record carries both an exit code
\* and an error text, whatever the failure was.
C10_EveryErrorHasExitCode ==
    \A k \in DOMAIN result \cap ErrorKeys : DOMAIN result[k] = {"exit_code", "error"}

\* t is s without the white space in front of it and behind it.
IsTrimmed(t, s) ==
    /\ t = <<>> \/ (t[1] \notin Whitespace /\ t[Len(t)] \notin Whitespace)
    /\ \E i \in 1..(Len(s) + 1) :
        /\ i + Len(t) - 1 <= Len(s)
        /\ SubSeq(s, i, i + Len(t) - 1) = t
        /\ \A j \in (1..(i - 1)) \cup ((i + Len(t))..Len(s)) : s[j] \in Whitespace

\* The error key of the step that was recorded last, "" before the first.
LastErrorKey ==
    CASE probe_pc = "pip_version" -> "python_version_error"
      [] probe_pc = "pip_freeze" -> "pip_version_error"
      [] probe_pc \in {"return", "returned"} -> "pip_freeze_error"
      [] OTHER -> ""

\* C10 amended: every error recorded carries an error text.  When the process
\* of the step exited non-zero and its standard error decodes, the error
\* carries the exact exit code and the trimmed standard-error text; an error
\* recorded for any other failure (the process could not be launched, or its
\* output does not decode) carries the error text alone, and no exit code.
C10_ExitCodeOnlyOnNonZeroExit ==
    /\ \A k \in DOMAIN result \cap ErrorKeys :
        DOMAIN result[k] \in {{"error"}, {"exit_code", "error"}}
    /\ LastErrorKey \in DOMAIN result =>
        LET error == result[LastErrorKey]
        IN IF process.kind = "completed" /\ process.returncode # 0 /\ process.stderr.valid
           THEN /\ DOMAIN error = {"exit_code", "error"}
                /\ error.exit_code = process.returncode
                /\ IsTrimmed(error.error, process.stderr.text)
           ELSE DOMAIN error = {"error"}

\* C10 witness: the first step exited with -9 and white space around its error
\* text, and the record holds the exit code and the trimmed text.
C10_TrimmedErrorRecorded ==
    /\ probe_pc = "pip_version"
    /\ process.kind = "completed"
    /\ process.returncode = -9
    /\ process.stderr = [valid |-> TRUE, text |-> <<" ", "a", " ", "a", "\n">>]
    /\ "python_version_error" \in DOMAIN result
    /\ result["python_version_error"] = [exit_code |-> -9, error |-> <<"a", " ", "a">>]

\* C5: of a line that does not start with "-e " and holds "==",
\* decompose_dependency returns the pair of what stands before the first "=="
\* and what stands after it.
C5_PairSplitOnFirstEquals ==
    (/\ parse_pc = "returned"
     /\ Slice(dependency, 0, 3) # <<"-", "e", " ">>
     /\ Contains(dependency, <<"=", "=">>)) =>
        LET i == Find(dependency, <<"=", "=">>)
        IN decomposed =
            <<SubSeq(dependency, 1, i - 1), SubSeq(dependency, i + 2, Len(dependency))>>

\* C6: every line of every successful dependency listing decomposes to a
\* dependency with a non-empty package name, and no key of the dependency
\* histogram of stats is the empty string.
C6_PackageNameNeverEmpty ==
    /\ \A e \in DOMAIN analyses :
        "pip_freeze" \in DOMAIN analyses[e] =>
            \A j \in DOMAIN analyses[e]["pip_freeze"] :
                decompose_dependency(analyses[e]["pip_freeze"][j])[1] # <<>>
    /\ stats_pc = "returned" => <<>> \notin DOMAIN statistics.dependency_counts

\* The key an environment is counted under in the histogram of a field.
VersionKey(e, key) ==
    IF key \in DOMAIN analyses[e] THEN Some(analyses[e][key]) ELSE None

RECURSIVE Total(_)
\* The sum of the counts of a histogram.
Total(counter) ==
    IF DOMAIN counter = {} THEN 0
    ELSE LET k == CHOOSE x \in DOMAIN counter : TRUE
         IN counter[k] + Total([x \in DOMAIN counter \ {k} |-> counter[x]])

\* A histogram counts every environment once, under its version or under None.
CountsEveryEnvironment(counter, key) ==
    /\ \A e \in DOMAIN analyses : VersionKey(e, key) \in DOMAIN counter
    /\ \A k \in DOMAIN counter :
        counter[k] = Cardinality({e \in DOMAIN analyses : VersionKey(e, key) = k})
    /\ Total(counter) = Len(stats_virtualenvs)

\* C7: in the result of stats, python_versions and pip_versions count every
\* discovered environment exactly once, under its version string when the step
\* succeeded and under the one null key when it failed; the counts of each of
\* them add up to the number of the environments.
C7_VersionHistogramsCountAll ==
    stats_pc = "returned" =>
        /\ CountsEveryEnvironment(statistics.python_versions, "python_version")
        /\ CountsEveryEnvironment(statistics.pip_versions, "pip_version")

\* C7 witness: stats has returned for two environments, one whose interpreter
\* answered and one whose interpreter could not be run: a count of 1 each.
C7_OneVersionOneFailure ==
    /\ stats_pc = "returned"
    /\ Len(stats_virtualenvs) = 2
    /\ None \in DOMAIN statistics.python_versions
    /\ statistics.python_versions[None] = 1
    /\ Some(<<"a">>) \in DOMAIN statistics.python_versions
    /\ statistics.python_versions[Some(<<"a">>)] = 1

\* The (package, version) pairs that the listing of an environment reports.
Reported(e) ==
    IF "pip_freeze" \in DOMAIN analyses[e]
    THEN {decompose_dependency(analyses[e]["pip_freeze"][j]) :
            j \in DOMAIN analyses[e]["pip_freeze"]}
    ELSE {}

\* C8: in the result of stats, dependency_counts[package][version] is the
\* number of the environments whose successful listing reports that package at
\* that version: an environment counts once, however many of its lines
\* decompose to the pair, and a failed listing counts nothing.
C8_CountsEnvironmentsPerVersion ==
    stats_pc = "returned" =>
        LET counts == statistics.dependency_counts
        IN /\ \A e \in DOMAIN analyses : \A pair \in Reported(e) :
                pair[1] \in DOMAIN counts /\ pair[2] \in DOMAIN counts[pair[1]]
           /\ \A package \in DOMAIN counts : \A version \in DOMAIN counts[package] :
                counts[package][version] =
                    Cardinality({e \in DOMAIN analyses : <<package, version>> \in Reported(e)})

\* C9: whatever the command, the path handed to the function it calls is the
\* root directory resolved to an absolute path without links.
C9_ResolvedPathHandedOn ==
    cli_pc = "called" => called.path = Realpath(Abspath(args.root_dir, cwd))

====
